---- MODULE Spec2Model ----
(***************************************************************************)
(* genxls: sheets of string cells -> field schemas, decoded records, and   *)
(* aggregated Go / C# / TypeScript declarations plus all.json.             *)
(*                                                                         *)
(* Go strings are modelled as TLA+ strings, one character per byte; Go     *)
(* slices as sequences; Go maps as functions over their key set.  Column   *)
(* and row indices of the Go code are 0-based; sequences here are 1-based, *)
(* so the Go index i is element i+1 and Field.Col keeps the Go (0-based)   *)
(* value.                                                                  *)
(***************************************************************************)
EXTENDS Integers, Sequences, FiniteSets, TLC

VARIABLES
    opts,              \* Options: Flag, Lang (set of targets), JSON
    stage,             \* position of main: "sheets", "go", "cs", "ts", "json", "done", "aborted"
    fileNo,            \* index of the input path whose sheets are being read
    seenKeys,          \* jsonKey -> origin
    schemas,           \* typeName -> fields
    jsonPayload,       \* jsonKey -> items
    orderedTypeNames,  \* type names, in order of acceptance
    err,               \* the error exitErr printed, or NoErr
    out,               \* artifact name -> what was written (absent: not written)
    fed,               \* history: every sheet handed to addSheet, the functions it
                       \* called and whether it was accepted
    call,              \* pure-function harness: the call to evaluate
    ret                \* pure-function harness: its result, or NoRet

vars == <<opts, stage, fileNo, seenKeys, schemas, jsonPayload, orderedTypeNames,
          err, out, fed, call, ret>>

pipeVars == <<opts, stage, fileNo, seenKeys, schemas, jsonPayload, orderedTypeNames,
              err, out, fed>>

-----------------------------------------------------------------------------
(* Strings *)

At(s, i) == SubSeq(s, i, i)

SetMin(S) == CHOOSE x \in S : \A y \in S : x <= y

SetMax(S) == CHOOSE x \in S : \A y \in S : x >= y

UpperLetters == "ABCDEFGHIJKLMNOPQRSTUVWXYZ"

LowerLetters == "abcdefghijklmnopqrstuvwxyz"

Digits == "0123456789"

InStr(c, s) == \E i \in 1..Len(s) : At(s, i) = c

IndexIn(c, s) == SetMin({i \in 1..Len(s) : At(s, i) = c})

\* unicode.IsSpace restricted to ASCII
IsSpace(c) == c \in {" ", "\t", "\n", "\r"}

LowerCh(c) == IF InStr(c, UpperLetters) THEN At(LowerLetters, IndexIn(c, UpperLetters)) ELSE c

UpperCh(c) == IF InStr(c, LowerLetters) THEN At(UpperLetters, IndexIn(c, LowerLetters)) ELSE c

\* A byte below 0x80 is written as its ASCII character.  The bytes from 0x80 on
\* that occur in the strings modelled are written with six characters that occur
\* in none of them as ASCII: the continuation bytes 0xA1 0xA8 0xBD 0xBF as
\* @ $ % & ...
ContinuationBytes == "@$%&"

\* ... and 0xE8 0xEF, each the first byte of a three-byte rune, as ^ ~
LeadBytes3 == "^~"

\* utf8.RuneError (U+FFFD) encoded: 0xEF 0xBF 0xBD
RuneError == "~&%"

IsASCII(c) == ~InStr(c, ContinuationBytes) /\ ~InStr(c, LeadBytes3)

\* utf8.DecodeRuneInString: the width of the rune s starts with; a byte that
\* starts no complete encoding is an invalid rune of width 1
RuneWidth(s) ==
    IF /\ Len(s) >= 3
       /\ InStr(At(s, 1), LeadBytes3)
       /\ InStr(At(s, 2), ContinuationBytes)
       /\ InStr(At(s, 3), ContinuationBytes)
    THEN 3 ELSE 1

\* strings.Map(unicode.ToLower / unicode.ToUpper, s), rune by rune: an ASCII
\* letter changes case, a three-byte rune is kept (those modelled have no case),
\* and an invalid byte is replaced by the encoding of utf8.RuneError
RECURSIVE MapStr(_, _)
MapStr(s, lower) ==
    IF s = "" THEN ""
    ELSE IF IsASCII(At(s, 1))
    THEN (IF lower THEN LowerCh(At(s, 1)) ELSE UpperCh(At(s, 1)))
         \o MapStr(SubSeq(s, 2, Len(s)), lower)
    ELSE IF RuneWidth(s) = 3
    THEN SubSeq(s, 1, 3) \o MapStr(SubSeq(s, 4, Len(s)), lower)
    ELSE RuneError \o MapStr(SubSeq(s, 2, Len(s)), lower)

ToLower(s) == MapStr(s, TRUE)

ToUpper(s) == MapStr(s, FALSE)

TrimSpace(s) ==
    LET keep == {i \in 1..Len(s) : ~IsSpace(At(s, i))}
    IN  IF keep = {} THEN "" ELSE SubSeq(s, SetMin(keep), SetMax(keep))

\* strings.Trim(s, cutset) for a one-character cutset
TrimCh(s, c) ==
    LET keep == {i \in 1..Len(s) : At(s, i) # c}
    IN  IF keep = {} THEN "" ELSE SubSeq(s, SetMin(keep), SetMax(keep))

Contains(s, sub) ==
    \E i \in 1..(Len(s) - Len(sub) + 1) : SubSeq(s, i, i + Len(sub) - 1) = sub

HasPrefix(s, p) == Len(s) >= Len(p) /\ SubSeq(s, 1, Len(p)) = p

HasSuffix(s, p) == Len(s) >= Len(p) /\ SubSeq(s, Len(s) - Len(p) + 1, Len(s)) = p

RECURSIVE ReplaceAll(_, _, _)
ReplaceAll(s, old, new) ==
    IF s = "" THEN ""
    ELSE (IF At(s, 1) = old THEN new ELSE At(s, 1)) \o ReplaceAll(SubSeq(s, 2, Len(s)), old, new)

\* encoding/json writing a string (a map key): a byte that starts no valid rune
\* is written as U+FFFD, every other rune as it is
RECURSIVE ToValidUTF8(_)
ToValidUTF8(s) ==
    IF s = "" THEN ""
    ELSE IF IsASCII(At(s, 1)) THEN At(s, 1) \o ToValidUTF8(SubSeq(s, 2, Len(s)))
    ELSE IF RuneWidth(s) = 3 THEN SubSeq(s, 1, 3) \o ToValidUTF8(SubSeq(s, 4, Len(s)))
    ELSE RuneError \o ToValidUTF8(SubSeq(s, 2, Len(s)))

\* Put(m, k, v): the Go assignment m[k] = v
Put(m, k, v) == [x \in (DOMAIN m) \cup {k} |-> IF x = k THEN v ELSE m[x]]

EmptyMap == [x \in {} |-> 0]

-----------------------------------------------------------------------------
(* Names *)

lowerFirst(s) ==
    IF s = "" THEN s ELSE ToLower(At(s, 1)) \o SubSeq(s, 2, Len(s))

pluralizeTypeName(typeName) ==
    IF typeName = "" THEN typeName
    ELSE IF \/ HasSuffix(typeName, "s") \/ HasSuffix(typeName, "x")
            \/ HasSuffix(typeName, "z") \/ HasSuffix(typeName, "ch")
            \/ HasSuffix(typeName, "sh")
         THEN typeName \o "es"
         ELSE typeName \o "s"

IsSep(c) == c = "_" \/ c = "-"

\* strings.FieldsFunc(name, IsSep): the maximal runs of non-separator characters
RECURSIVE FieldsFunc(_, _, _)
FieldsFunc(s, cur, acc) ==
    IF s = "" THEN (IF cur = "" THEN acc ELSE Append(acc, cur))
    ELSE IF IsSep(At(s, 1))
         THEN FieldsFunc(SubSeq(s, 2, Len(s)), "", IF cur = "" THEN acc ELSE Append(acc, cur))
         ELSE FieldsFunc(SubSeq(s, 2, Len(s)), cur \o At(s, 1), acc)

RECURSIVE JoinParts(_)
JoinParts(parts) ==
    IF parts = <<>> THEN "" ELSE Head(parts) \o JoinParts(Tail(parts))

CapPart(p) ==
    IF p = "" THEN p ELSE ToUpper(At(p, 1)) \o ToLower(SubSeq(p, 2, Len(p)))

exportName(name) ==
    IF name = "" THEN name
    ELSE IF ~(\E i \in 1..Len(name) : IsSep(At(name, i)))
         THEN ToUpper(At(name, 1)) \o SubSeq(name, 2, Len(name))
         ELSE LET parts == FieldsFunc(name, "", <<>>)
              IN  JoinParts([i \in 1..Len(parts) |-> CapPart(parts[i])])

-----------------------------------------------------------------------------
(* Type tables *)

NoType == [ok |-> FALSE, t |-> ""]

mapGoType(t) ==
    LET l == ToLower(t)
    IN  IF l \in {"int", "int32", "int64"} THEN [ok |-> TRUE, t |-> "int"]
        ELSE IF l = "int[]" THEN [ok |-> TRUE, t |-> "[]int"]
        ELSE IF l = "int[][]" THEN [ok |-> TRUE, t |-> "[][]int"]
        ELSE IF l \in {"float", "float32", "float64"} THEN [ok |-> TRUE, t |-> "float64"]
        ELSE IF l = "bool" THEN [ok |-> TRUE, t |-> "bool"]
        ELSE IF l = "string" THEN [ok |-> TRUE, t |-> "string"]
        ELSE NoType

\* variant: the token is compared as written
mapCSTypeCaseSensitive(t) ==
    IF t \in {"int", "int32", "int64"} THEN [ok |-> TRUE, t |-> "int"]
    ELSE IF t = "int[]" THEN [ok |-> TRUE, t |-> "List<int>"]
    ELSE IF t = "int[][]" THEN [ok |-> TRUE, t |-> "List<List<int>>"]
    ELSE IF t \in {"float", "float32", "float64"} THEN [ok |-> TRUE, t |-> "double"]
    ELSE IF t = "bool" THEN [ok |-> TRUE, t |-> "bool"]
    ELSE IF t = "string" THEN [ok |-> TRUE, t |-> "string"]
    ELSE NoType

mapCSType(t) ==
    LET l == ToLower(t)
    IN  IF l \in {"int", "int32", "int64"} THEN [ok |-> TRUE, t |-> "int"]
        ELSE IF l = "int[]" THEN [ok |-> TRUE, t |-> "List<int>"]
        ELSE IF l = "int[][]" THEN [ok |-> TRUE, t |-> "List<List<int>>"]
        ELSE IF l \in {"float", "float32", "float64"} THEN [ok |-> TRUE, t |-> "double"]
        ELSE IF l = "bool" THEN [ok |-> TRUE, t |-> "bool"]
        ELSE IF l = "string" THEN [ok |-> TRUE, t |-> "string"]
        ELSE NoType

mapTSType(t) ==
    LET l == ToLower(t)
    IN  IF l \in {"int", "int32", "int64", "float", "float32", "float64"}
        THEN [ok |-> TRUE, t |-> "number"]
        ELSE IF l = "int[]" THEN [ok |-> TRUE, t |-> "number[]"]
        ELSE IF l = "int[][]" THEN [ok |-> TRUE, t |-> "number[][]"]
        ELSE IF l = "bool" THEN [ok |-> TRUE, t |-> "boolean"]
        ELSE IF l = "string" THEN [ok |-> TRUE, t |-> "string"]
        ELSE NoType

-----------------------------------------------------------------------------
(* Errors: kind is the fixed text of the Go message; text and row are its     *)
(* formatted operands; col and field are what readHorizontalItems adds to a   *)
(* decode error; origin is the sheet addSheet prefixes the message with and   *)
(* prev the earlier origin a duplicate-key message names.                     *)

NoOrigin == <<0, "">>

NoErr ==
    [kind |-> "", text |-> "", row |-> 0, col |-> 0, field |-> "",
     origin |-> NoOrigin, prev |-> NoOrigin]

Err(kind, text, row) == [NoErr EXCEPT !.kind = kind, !.text = text, !.row = row]

IsErr(e) == e.kind # ""

-----------------------------------------------------------------------------
(* Header detection *)

OrientationHorizontal == "Horizontal"

OrientationVertical == "Vertical"

rowHasFieldDefs(row) == \E i \in 1..Len(row) : Contains(row[i], "#")

HeaderSpec(n, ori) ==
    [err |-> NoErr, HeaderRows |-> n, Orientation |-> ori, DefineRow |-> n]

\* variant: the shortest header is tried first
detectHeaderSpecShortestFirst(rows) ==
    IF Len(rows) >= 1 /\ rowHasFieldDefs(rows[1])
    THEN HeaderSpec(1, OrientationHorizontal)
    ELSE IF Len(rows) >= 2 /\ rowHasFieldDefs(rows[2])
    THEN HeaderSpec(2, OrientationHorizontal)
    ELSE IF Len(rows) >= 3 /\ rowHasFieldDefs(rows[3])
    THEN LET a1 == IF Len(rows[1]) > 0 THEN TrimSpace(rows[1][1]) ELSE ""
         IN  HeaderSpec(3, IF a1 = "2" THEN OrientationVertical ELSE OrientationHorizontal)
    ELSE [err |-> Err("cannot detect header", "", 0), HeaderRows |-> 0,
          Orientation |-> OrientationHorizontal, DefineRow |-> 0]

detectHeaderSpec(rows) ==
    IF Len(rows) >= 3 /\ rowHasFieldDefs(rows[3])
    THEN LET a1 == IF Len(rows[1]) > 0 THEN TrimSpace(rows[1][1]) ELSE ""
         IN  HeaderSpec(3, IF a1 = "2" THEN OrientationVertical ELSE OrientationHorizontal)
    ELSE IF Len(rows) >= 2 /\ rowHasFieldDefs(rows[2])
    THEN HeaderSpec(2, OrientationHorizontal)
    ELSE IF Len(rows) >= 1 /\ rowHasFieldDefs(rows[1])
    THEN HeaderSpec(1, OrientationHorizontal)
    ELSE [err |-> Err("cannot detect header", "", 0), HeaderRows |-> 0,
          Orientation |-> OrientationHorizontal, DefineRow |-> 0]

-----------------------------------------------------------------------------
(* Field definitions *)

FieldFlagAll == "All"

FieldFlagServer == "Server"

FieldFlagClient == "Client"

IsLetter(c) == InStr(c, UpperLetters) \/ InStr(c, LowerLetters)

IsIdentStart(c) == IsLetter(c) \/ c = "_"

IsIdentCh(c) == IsLetter(c) \/ InStr(c, Digits) \/ c = "_"

IsTypeCh(c) == c # "," /\ ~IsSpace(c)

\* character classes: \s, [A-Za-z0-9_], [^,\s], [0-9] and [^.]
InClass(class, c) ==
    IF class = "space" THEN IsSpace(c)
    ELSE IF class = "ident" THEN IsIdentCh(c)
    ELSE IF class = "type" THEN IsTypeCh(c)
    ELSE IF class = "digit" THEN InStr(c, Digits)
    ELSE c # "."

\* the first index >= i of s whose character is outside the class (Len(s)+1 when
\* none is): where a greedy starred class of a pattern stops
Span(s, i, class) ==
    SetMin({j \in i..(Len(s) + 1) : j = Len(s) + 1 \/ ~InClass(class, At(s, j))})

NoMatch == [ok |-> FALSE, name |-> "", type |-> "", flag |-> ""]

\* fieldRe.FindStringSubmatch:
\*   ^\s*([A-Za-z_][A-Za-z0-9_]*)\s*#\s*([^,\s]+)\s*(?:,\s*([sc]))?\s*$
\* Every starred class is followed by a character outside it, so the greedy match
\* is the only one.
fieldRe(s) ==
    LET n  == Len(s)
        p1 == Span(s, 1, "space")
        p2 == Span(s, p1, "ident")
        p3 == Span(s, p2, "space")
        p4 == Span(s, p3 + 1, "space")
        p5 == Span(s, p4, "type")
        p6 == Span(s, p5, "space")
        p7 == Span(s, p6 + 1, "space")
        p8 == Span(s, p7 + 1, "space")
    IN  IF p1 > n \/ ~IsIdentStart(At(s, p1)) THEN NoMatch
        ELSE IF p3 > n \/ At(s, p3) # "#" THEN NoMatch
        ELSE IF p4 > n \/ p5 = p4 THEN NoMatch
        ELSE IF p6 > n
             THEN [ok |-> TRUE, name |-> SubSeq(s, p1, p2 - 1),
                   type |-> SubSeq(s, p4, p5 - 1), flag |-> ""]
        ELSE IF At(s, p6) # "," THEN NoMatch
        ELSE IF p7 > n \/ At(s, p7) \notin {"s", "c"} THEN NoMatch
        ELSE IF p8 <= n THEN NoMatch
        ELSE [ok |-> TRUE, name |-> SubSeq(s, p1, p2 - 1),
              type |-> SubSeq(s, p4, p5 - 1), flag |-> At(s, p7)]

\* lines 404-407: the cell is a comment/common column
isCommentCell(cell) ==
    LET lower == ToLower(cell)
    IN  Contains(lower, "#comment") \/ Contains(lower, "#common")

\* lines 420-430
flagOf(flagCh) ==
    IF flagCh = "s" THEN FieldFlagServer
    ELSE IF flagCh = "c" THEN FieldFlagClient
    ELSE FieldFlagAll

\* variant: the server and client filters are exchanged
visibilitySwapped(ff, exportFlag) ==
    IF exportFlag = "" THEN "keep"
    ELSE IF exportFlag = "client" THEN (IF ff = FieldFlagClient THEN "drop" ELSE "keep")
    ELSE IF exportFlag = "server" THEN (IF ff = FieldFlagServer THEN "drop" ELSE "keep")
    ELSE "invalid"

\* variant: an unknown filter value keeps every field
visibilityLenient(ff, exportFlag) ==
    IF exportFlag = "server" THEN (IF ff = FieldFlagClient THEN "drop" ELSE "keep")
    ELSE IF exportFlag = "client" THEN (IF ff = FieldFlagServer THEN "drop" ELSE "keep")
    ELSE "keep"

\* lines 432-445: what the export filter does with a field of flag ff
visibility(ff, exportFlag) ==
    IF exportFlag = "" THEN "keep"
    ELSE IF exportFlag = "server" THEN (IF ff = FieldFlagClient THEN "drop" ELSE "keep")
    ELSE IF exportFlag = "client" THEN (IF ff = FieldFlagServer THEN "drop" ELSE "keep")
    ELSE "invalid"

Field(rawName, rawType, goType, colIdx, ff) ==
    [RawName |-> rawName, Name |-> exportName(rawName), RawType |-> rawType,
     GoType |-> goType, Col |-> colIdx, Flag |-> ff, Exported |-> TRUE]

\* variant: a cell the pattern rejects is skipped like a comment cell
malformedCellSkipped(cell, defineRow) == [err |-> NoErr, add |-> <<>>]

\* malformedCell: what the loop does with a cell the pattern rejects (lines 410-412)
malformedCell(cell, defineRow) ==
    [err |-> Err("invalid field def", cell, defineRow), add |-> <<>>]

\* lines 447-459: a field the filter keeps is appended if its type is known
keptField(m, colIdx, go) ==
    IF ~go.ok THEN [err |-> Err("unsupported type", m.type, 0), add |-> <<>>]
    ELSE [err |-> NoErr, add |-> <<Field(m.name, m.type, go.t, colIdx, flagOf(m.flag))>>]

\* lines 432-445: vis is what the filter does with the field
filteredField(m, colIdx, exportFlag, vis) ==
    IF vis = "invalid" THEN [err |-> Err("invalid --flag", exportFlag, 0), add |-> <<>>]
    ELSE IF vis = "drop" THEN [err |-> NoErr, add |-> <<>>]
    ELSE keptField(m, colIdx, mapGoType(m.type))

\* lines 409-445: m is what fieldRe found in the trimmed cell
matchedCell(cell, colIdx, defineRow, exportFlag, m) ==
    IF ~m.ok THEN malformedCell(cell, defineRow)
    ELSE IF ToLower(m.type) = "comment" \/ ToLower(m.type) = "common"
    THEN [err |-> NoErr, add |-> <<>>]
    ELSE filteredField(m, colIdx, exportFlag, visibility(flagOf(m.flag), exportFlag))

\* lines 400-408: the trimmed cell is skipped when blank or a comment column
trimmedCell(cell, colIdx, defineRow, exportFlag) ==
    IF cell = "" THEN [err |-> NoErr, add |-> <<>>]
    ELSE IF isCommentCell(cell) THEN [err |-> NoErr, add |-> <<>>]
    ELSE matchedCell(cell, colIdx, defineRow, exportFlag, fieldRe(cell))

\* one iteration of the loop over the define row (lines 398-460): the error it
\* returns, or the fields it appends (none when the cell is skipped)
fieldCell(rawCell, colIdx, defineRow, exportFlag) ==
    trimmedCell(TrimSpace(rawCell), colIdx, defineRow, exportFlag)

RECURSIVE fieldLoop(_, _, _, _, _)
RECURSIVE fieldNext(_, _, _, _, _, _)
fieldLoop(row, colIdx, fields, defineRow, exportFlag) ==
    IF colIdx >= Len(row) THEN [err |-> NoErr, fields |-> fields]
    ELSE fieldNext(row, colIdx, fields, defineRow, exportFlag,
                   fieldCell(row[colIdx + 1], colIdx, defineRow, exportFlag))

\* r is what the iteration for column colIdx gave
fieldNext(row, colIdx, fields, defineRow, exportFlag, r) ==
    IF IsErr(r.err) THEN [err |-> r.err, fields |-> <<>>]
    ELSE fieldLoop(row, colIdx + 1, fields \o r.add, defineRow, exportFlag)

\* lines 461-464: what is returned once the loop over the define row has ended
atLeastOneField(r) ==
    IF IsErr(r.err) THEN r
    ELSE IF Len(r.fields) = 0
    THEN [err |-> Err("no exported fields found", "", 0), fields |-> <<>>]
    ELSE r

parseFieldsFromDefineRow(rows, defineRow, exportFlag) ==
    IF defineRow <= 0 \/ defineRow > Len(rows)
    THEN [err |-> Err("define row out of range", "", defineRow), fields |-> <<>>]
    ELSE atLeastOneField(fieldLoop(rows[defineRow], 0, <<>>, defineRow, exportFlag))

-----------------------------------------------------------------------------
(* Cell values.  A decoded value is [t, nil, v]: t the Go dynamic type, nil     *)
(* whether it is a nil slice, v the number / boolean / string / sequence.       *)
(* A float64 is kept as <<m, e>> for m * 10^(-e), m not a multiple of 10        *)
(* unless e = 0.                                                                *)

Val(t, v) == [t |-> t, nil |-> FALSE, v |-> v]

NilSlice(t) == [t |-> t, nil |-> TRUE, v |-> <<>>]

NoVal == [t |-> "", nil |-> TRUE, v |-> <<>>]

Decoded(v) == [err |-> NoErr, val |-> v]

DecodeErr(kind, s) == [err |-> Err(kind, s, 0), val |-> NoVal]

AllDigits(s) == \A i \in 1..Len(s) : InStr(At(s, i), Digits)

RECURSIVE DigitsValue(_)
DigitsValue(s) ==
    IF s = "" THEN 0
    ELSE 10 * DigitsValue(SubSeq(s, 1, Len(s) - 1)) + (IndexIn(At(s, Len(s)), Digits) - 1)

\* the digits of a number are what follows its sign
IsSigned(s) == s # "" /\ At(s, 1) \in {"+", "-"}

Unsigned(s) == IF IsSigned(s) THEN SubSeq(s, 2, Len(s)) ELSE s

\* n with the sign s starts with
WithSign(s, n) == IF s # "" /\ At(s, 1) = "-" THEN 0 - n ELSE n

\* strconv.Atoi: optional sign, then one or more decimal digits
\* (values stay far inside the int range for the inputs modelled)
Atoi(s) ==
    IF Unsigned(s) = "" \/ ~AllDigits(Unsigned(s)) THEN DecodeErr("strconv.Atoi", s)
    ELSE Decoded(Val("int", WithSign(s, DigitsValue(Unsigned(s)))))

RECURSIVE Normalize(_, _)
Normalize(m, e) ==
    IF e > 0 /\ m % 10 = 0 THEN Normalize(m \div 10, e - 1) ELSE <<m, e>>

\* the float of sign, integer part ip and fraction part fp
floatOfParts(s, ip, fp) ==
    IF ~AllDigits(ip) \/ ~AllDigits(fp) \/ ip \o fp = ""
    THEN DecodeErr("strconv.ParseFloat", s)
    ELSE Decoded(Val("float64", Normalize(WithSign(s, DigitsValue(ip \o fp)), Len(fp))))

\* the float of a literal whose digits are body, with its point at index dot
floatAtDot(s, body, dot) ==
    floatOfParts(s, SubSeq(body, 1, dot - 1), SubSeq(body, dot + 1, Len(body)))

\* strconv.ParseFloat on plain decimal literals [sign] digits [. digits]; the
\* exponent, hexadecimal, infinity and NaN spellings are outside the cells modelled
ParseFloat(s) == floatAtDot(s, Unsigned(s), Span(Unsigned(s), 1, "nodot"))

\* strconv.ParseBool, applied to the lower-cased cell
ParseBool(ls) ==
    IF ls \in {"1", "t", "true"} THEN Decoded(Val("bool", TRUE))
    ELSE IF ls \in {"0", "f", "false"} THEN Decoded(Val("bool", FALSE))
    ELSE DecodeErr("strconv.ParseBool", ls)

(* encoding/json on the texts parseBraceArrayJSON produces: arrays, integer     *)
(* literals and null, with JSON white space.  A parsed text is a tree           *)
(* [k |-> "num" | "arr" | "null", n, elems].                                    *)

JFail == [ok |-> FALSE, k |-> "", n |-> 0, elems |-> <<>>, pos |-> 0]

JNum(n, pos) == [ok |-> TRUE, k |-> "num", n |-> n, elems |-> <<>>, pos |-> pos]

JNull(pos) == [ok |-> TRUE, k |-> "null", n |-> 0, elems |-> <<>>, pos |-> pos]

JArr(elems, pos) == [ok |-> TRUE, k |-> "arr", n |-> 0, elems |-> elems, pos |-> pos]

IsDigit(c) == InStr(c, Digits)

\* the integer literal whose digits are s[d0..d1-1], negated when neg: not
\* continued by a digit, a fraction or an exponent (a number that is no integer
\* literal does not decode into an int)
jsonInt(s, neg, d0, d1) ==
    IF d0 > Len(s) \/ d1 = d0 THEN JFail
    ELSE IF d1 <= Len(s) /\ (IsDigit(At(s, d1)) \/ At(s, d1) \in {".", "e", "E"}) THEN JFail
    ELSE JNum(IF neg THEN 0 - DigitsValue(SubSeq(s, d0, d1 - 1))
              ELSE DigitsValue(SubSeq(s, d0, d1 - 1)), d1)

\* the digits of an integer literal from s[d0] on: 0|[1-9][0-9]*
jsonDigits(s, neg, d0) ==
    jsonInt(s, neg, d0,
            IF d0 <= Len(s) /\ At(s, d0) = "0" THEN d0 + 1 ELSE Span(s, d0, "digit"))

\* an integer literal at s[i]: -?(0|[1-9][0-9]*)
jsonNumber(s, i) == jsonDigits(s, At(s, i) = "-", IF At(s, i) = "-" THEN i + 1 ELSE i)

RECURSIVE jsonValue(_, _)
RECURSIVE jsonValueAt(_, _)
RECURSIVE jsonArray(_, _, _)
RECURSIVE jsonElems(_, _, _)
RECURSIVE jsonElem(_, _, _)
RECURSIVE jsonNext(_, _, _, _)
\* the value starting at or after s[i]; pos is the index after it
jsonValue(s, i) == jsonValueAt(s, Span(s, i, "space"))

\* the value starting at s[j], no white space before it
jsonValueAt(s, j) ==
    IF j > Len(s) THEN JFail
    ELSE IF At(s, j) = "[" THEN jsonArray(s, j, Span(s, j + 1, "space"))
    ELSE IF At(s, j) = "-" \/ IsDigit(At(s, j)) THEN jsonNumber(s, j)
    ELSE IF j + 3 <= Len(s) /\ SubSeq(s, j, j + 3) = "null" THEN JNull(j + 4)
    ELSE JFail

\* the array opened at s[j], s[k] being the first character after the bracket
\* that is no white space
jsonArray(s, j, k) ==
    IF k <= Len(s) /\ At(s, k) = "]" THEN JArr(<<>>, k + 1)
    ELSE jsonElems(s, j + 1, <<>>)

\* the elements of a non-empty array from s[i] on, acc being those already read
jsonElems(s, i, acc) == jsonElem(s, acc, jsonValue(s, i))

\* v is the element just read
jsonElem(s, acc, v) ==
    IF ~v.ok THEN JFail ELSE jsonNext(s, acc, v, Span(s, v.pos, "space"))

\* s[k] is what follows the element v: the end of the array or a comma
jsonNext(s, acc, v, k) ==
    IF k > Len(s) THEN JFail
    ELSE IF At(s, k) = "]" THEN JArr(Append(acc, v), k + 1)
    ELSE IF At(s, k) = "," THEN jsonElems(s, k + 1, Append(acc, v))
    ELSE JFail

\* v is the value the text starts with: nothing but white space may follow it
jsonWhole(s, v) == IF v.ok /\ Span(s, v.pos, "space") > Len(s) THEN v ELSE JFail

\* the whole text is one JSON value
jsonParse(s) == jsonWhole(s, jsonValue(s, 1))

\* an element of []int: a number, or null (which leaves the zero value)
IntElemOk(e) == e.k \in {"num", "null"}

\* decoding an array tree into []int
IntsOf(tree) == [i \in 1..Len(tree.elems) |-> tree.elems[i].n]

IsIntArray(tree) == tree.k = "arr" /\ \A i \in 1..Len(tree.elems) : IntElemOk(tree.elems[i])

SliceType(dim) == IF dim = 1 THEN "[]int" ELSE "[][]int"

\* the parsed text tree stored into a nil []int (dim = 1) or [][]int (dim = 2)
jsonDecode(s, dim, tree) ==
    IF ~tree.ok THEN DecodeErr("json", s)
    ELSE IF tree.k = "null" THEN Decoded(NilSlice(SliceType(dim)))
    ELSE IF tree.k # "arr" THEN DecodeErr("json", s)
    ELSE IF dim = 1
         THEN (IF IsIntArray(tree) THEN Decoded(Val(SliceType(dim), IntsOf(tree)))
               ELSE DecodeErr("json", s))
    ELSE IF \A i \in 1..Len(tree.elems) :
                tree.elems[i].k = "null" \/ IsIntArray(tree.elems[i])
         THEN Decoded(Val(SliceType(dim),
                          [i \in 1..Len(tree.elems) |-> IntsOf(tree.elems[i])]))
         ELSE DecodeErr("json", s)

\* json.Unmarshal(text, &v) for v a nil []int (dim = 1) or [][]int (dim = 2)
jsonUnmarshal(s, dim) == jsonDecode(s, dim, jsonParse(s))

\* lines 868-870: the empty literal is the empty array
emptyAsArray(s) == IF s = "" \/ s = "{}" THEN "[]" ELSE s

\* lines 872-873
bracesToBrackets(s) == ReplaceAll(ReplaceAll(s, "{", "["), "}", "]")

\* lines 874-876: a text that does not start with a bracket is put inside brackets
wrapUnlessBracketed(s) == IF ~HasPrefix(TrimSpace(s), "[") THEN "[" \o s \o "]" ELSE s

\* lines 866-867
trimQuoted(s) == TrimCh(TrimSpace(s), "\"")

\* variant: the outer brackets are added to every literal
parseBraceArrayJSONAlwaysWrapped(s, dim) ==
    jsonUnmarshal("[" \o bracesToBrackets(emptyAsArray(trimQuoted(s))) \o "]", dim)

parseBraceArrayJSON(s, dim) ==
    jsonUnmarshal(wrapUnlessBracketed(bracesToBrackets(emptyAsArray(trimQuoted(s)))), dim)

\* the switch of lines 802-817: the value of an empty cell
emptyCellValue(rawType) ==
    LET l == ToLower(rawType)
    IN  IF l \in {"int", "int32", "int64"} THEN Decoded(Val("int", 0))
        ELSE IF l = "int[]" THEN Decoded(Val("[]int", <<>>))
        ELSE IF l = "int[][]" THEN Decoded(Val("[][]int", <<>>))
        ELSE IF l \in {"float", "float32", "float64"} THEN Decoded(Val("float64", <<0, 0>>))
        ELSE IF l = "bool" THEN Decoded(Val("bool", FALSE))
        ELSE IF l = "string" THEN Decoded(Val("string", ""))
        ELSE DecodeErr("unsupported type", rawType)

parseCellValue(rawType, s) ==
    LET l == ToLower(rawType)
    IN  IF s = "" THEN emptyCellValue(rawType)
        ELSE IF l \in {"int", "int32", "int64"} THEN Atoi(s)
        ELSE IF l = "int[]" THEN parseBraceArrayJSON(s, 1)
        ELSE IF l = "int[][]" THEN parseBraceArrayJSON(s, 2)
        ELSE IF l \in {"float", "float32", "float64"} THEN ParseFloat(s)
        ELSE IF l = "bool"
             THEN (IF ToLower(s) = "1" THEN Decoded(Val("bool", TRUE))
                   ELSE IF ToLower(s) = "0" THEN Decoded(Val("bool", FALSE))
                   ELSE ParseBool(ToLower(s)))
        ELSE IF l = "string" THEN Decoded(Val("string", s))
        ELSE DecodeErr("unsupported type", rawType)

-----------------------------------------------------------------------------
(* Data rows *)

\* only the first cell looked at
isEmptyRowFirstCell(row) == Len(row) = 0 \/ TrimSpace(row[1]) = ""

isEmptyRow(row) == \A i \in 1..Len(row) : TrimSpace(row[i]) = ""

\* lines 776-779: the trimmed cell of a field, "" when the row is too short
cellOf(row, field) ==
    IF field.Col >= 0 /\ field.Col < Len(row) THEN TrimSpace(row[field.Col + 1]) ELSE ""

RECURSIVE rowObject(_, _, _, _, _)
RECURSIVE putCell(_, _, _, _, _, _)
\* lines 774-785: the record of one data row; r is the Go row index
rowObject(row, r, fields, i, obj) ==
    IF i > Len(fields) THEN [err |-> NoErr, obj |-> obj]
    ELSE putCell(row, r, fields, i, obj,
                 parseCellValue(fields[i].RawType, cellOf(row, fields[i])))

\* variant: an entry the record already holds is not replaced
putCellKeepFirst(row, r, fields, i, obj, d) ==
    IF IsErr(d.err)
    THEN [err |-> [d.err EXCEPT !.row = r + 1, !.col = fields[i].Col + 1,
                                !.field = fields[i].RawName],
          obj |-> EmptyMap]
    ELSE rowObject(row, r, fields, i + 1,
                   IF fields[i].RawName \in DOMAIN obj THEN obj
                   ELSE Put(obj, fields[i].RawName, d.val))

\* lines 781-784: d is what parseCellValue returned for field i
putCell(row, r, fields, i, obj, d) ==
    IF IsErr(d.err)
    THEN [err |-> [d.err EXCEPT !.row = r + 1, !.col = fields[i].Col + 1,
                                !.field = fields[i].RawName],
          obj |-> EmptyMap]
    ELSE rowObject(row, r, fields, i + 1, Put(obj, fields[i].RawName, d.val))

RECURSIVE rowLoop(_, _, _, _)
RECURSIVE appendItem(_, _, _, _, _)
\* the loop of lines 769-787 from Go row index r on
rowLoop(rows, r, fields, items) ==
    IF r >= Len(rows) THEN [err |-> NoErr, items |-> items]
    ELSE IF isEmptyRow(rows[r + 1]) THEN rowLoop(rows, r + 1, fields, items)
    ELSE appendItem(rows, r, fields, items, rowObject(rows[r + 1], r, fields, 1, EmptyMap))

\* line 786: o is the record of row r
appendItem(rows, r, fields, items, o) ==
    IF IsErr(o.err) THEN [err |-> o.err, items |-> <<>>]
    ELSE rowLoop(rows, r + 1, fields, Append(items, o.obj))

\* a nil items slice (no record appended) is the empty sequence
readHorizontalItems(rows, dataStartRow, fields) ==
    rowLoop(rows, (IF dataStartRow <= 0 THEN 1 ELSE dataStartRow) - 1, fields, <<>>)

-----------------------------------------------------------------------------
(* Aggregation: the addSheet closure of main *)

\* the orientation check of line 220 left out
isVerticalNever(spec) == FALSE

\* line 220: the sheet is refused for its orientation
isVertical(spec) == spec.Orientation = OrientationVertical

\* line 227: the 1-based row the data starts at
dataStartRow(spec) == spec.DefineRow + 1

\* the check of line 238 left out
isDuplicateNever(seen, jsonKey) == FALSE

\* line 238: the key is already taken
isDuplicate(seen, jsonKey) == jsonKey \in DOMAIN seen

\* the new name put first
prependTypeName(names, typeName) == <<typeName>> \o names

\* line 244
appendTypeName(names, typeName) == Append(names, typeName)

Refused(e, calls) ==
    [err |-> e, calls |-> calls, typeName |-> "", jsonKey |-> "",
     fields |-> <<>>, items |-> <<>>]

\* lines 232-237: the sheet is named, after its rows were read
afterRead(sheetName, fields, read) ==
    IF IsErr(read.err)
    THEN Refused(read.err, <<"detectHeaderSpec", "parseFieldsFromDefineRow",
                             "readHorizontalItems">>)
    ELSE IF exportName(sheetName) = ""
    THEN Refused(Err("empty sheet name", "", 0),
                 <<"detectHeaderSpec", "parseFieldsFromDefineRow", "readHorizontalItems">>)
    ELSE [err |-> NoErr,
          calls |-> <<"detectHeaderSpec", "parseFieldsFromDefineRow", "readHorizontalItems">>,
          typeName |-> exportName(sheetName),
          jsonKey |-> lowerFirst(pluralizeTypeName(exportName(sheetName))),
          fields |-> fields, items |-> read.items]

\* lines 224-230: the data rows are read, after the define row was parsed
afterParse(sheetName, rows, spec, parsed) ==
    IF IsErr(parsed.err)
    THEN Refused(parsed.err, <<"detectHeaderSpec", "parseFieldsFromDefineRow">>)
    ELSE afterRead(sheetName, parsed.fields,
                   readHorizontalItems(rows, dataStartRow(spec), parsed.fields))

\* lines 217-223: the define row is parsed, after the header was detected
afterDetect(exportFlag, sheetName, rows, spec) ==
    IF IsErr(spec.err) THEN Refused(spec.err, <<"detectHeaderSpec">>)
    ELSE IF isVertical(spec)
    THEN Refused(Err("vertical orientation (A1=2) is not supported yet", "", 0),
                 <<"detectHeaderSpec">>)
    ELSE afterParse(sheetName, rows, spec,
                    parseFieldsFromDefineRow(rows, spec.DefineRow, exportFlag))

\* lines 216-237: the part of addSheet that reads no aggregate state; calls lists
\* the functions it invoked, in order
sheetStages(exportFlag, sheetName, rows) ==
    afterDetect(exportFlag, sheetName, rows, detectHeaderSpec(rows))

\* lines 215-245 up to the four assignments: the error addSheet exits with (every
\* message but the duplicate-key one is prefixed with the origin), or what it is
\* about to store
addSheet(seen, origin, st) ==
    IF IsErr(st.err) THEN [st EXCEPT !.err.origin = origin]
    ELSE IF isDuplicate(seen, st.jsonKey)
         THEN Refused([Err("duplicate sheet key", st.jsonKey, 0)
                          EXCEPT !.origin = origin, !.prev = seen[st.jsonKey]],
                      st.calls)
         ELSE st

-----------------------------------------------------------------------------
(* Emitters.  A generated file is kept as its declarations in textual order of  *)
(* each block: root is the members of the root container, types the per-sheet   *)
(* declarations with their members.                                             *)

rootName == "AllConfig"

RootMember(typeName) ==
    [fieldName |-> pluralizeTypeName(typeName), typeName |-> typeName,
     jsonKey |-> lowerFirst(pluralizeTypeName(typeName))]

RootMembers(typeNames) == [i \in 1..Len(typeNames) |-> RootMember(typeNames[i])]

GoMember(f) == [name |-> f.Name, type |-> f.GoType, json |-> f.RawName, ok |-> TRUE]

CSMember(f) ==
    [name |-> f.Name, type |-> mapCSType(f.RawType).t, json |-> f.RawName,
     ok |-> mapCSType(f.RawType).ok]

TSMember(f) ==
    [name |-> f.RawName, type |-> mapTSType(f.RawType).t, json |-> f.RawName,
     ok |-> mapTSType(f.RawType).ok]

Member(lang, f) ==
    IF lang = "go" THEN GoMember(f)
    ELSE IF lang = "cs" THEN CSMember(f)
    ELSE TSMember(f)

TypeDecls(lang, typeNames, sch) ==
    [i \in 1..Len(typeNames) |->
        [name   |-> typeNames[i],
         fields |-> [j \in 1..Len(sch[typeNames[i]]) |-> Member(lang, sch[typeNames[i]][j])]]]

\* what a bundle generator returns: the error of the first member (in emission
\* order) whose type it cannot map, else the declarations
Bundle(lang, pkg, root, typeNames, sch) ==
    LET decls == TypeDecls(lang, typeNames, sch)
        bad   == UNION {{<<i, j>> : j \in {k \in 1..Len(decls[i].fields) :
                                             ~decls[i].fields[k].ok}} :
                        i \in 1..Len(decls)}
        first == CHOOSE x \in bad : \A y \in bad :
                     x[1] < y[1] \/ (x[1] = y[1] /\ x[2] <= y[2])
    IN  [err      |-> IF bad = {} THEN NoErr
                      ELSE Err("unsupported type",
                               sch[typeNames[first[1]]][first[2]].RawType, 0),
         pkg      |-> pkg,
         rootName |-> root,
         root     |-> RootMembers(typeNames),
         types    |-> decls]

generateGoBundle(pkg, root, typeNames, sch) == Bundle("go", pkg, root, typeNames, sch)

generateCSBundle(root, typeNames, sch) == Bundle("cs", "", root, typeNames, sch)

generateTSBundle(root, typeNames, sch) == Bundle("ts", "", root, typeNames, sch)

-----------------------------------------------------------------------------
(* The run: main *)

MaxSheets == 3

MaxFiles == 2

\* sheet names offered to the run; the last is the rune U+8868 (0xE8 0xA1 0xA8)
SheetNames == {"Item", "Box", "Boxe", "_", "data_id", "^@$"}

RowsTwoHeader ==
    << <<"2", "list">>, <<"cid#int", "dt#int[],s">>, <<"1", "{1,2}">>, <<" ", "">>, <<"2">> >>

RowsOneHeader ==
    << <<"n#string,c", "x#comment", "cid#INT">>, <<"a", "", "7">>, <<"", "note">> >>

RowsVertical ==
    << <<" 2">>, <<"c">>, <<"cid-int", "a#foo">>, <<"x">> >>

RowsNoHeader == << <<"a", "b">> >>

RowsBadField == << <<"cid-int", "a#int">>, <<"1", "2">> >>

RowsBadCell == << <<"x">>, <<"a#int">>, <<"1">>, <<"one">> >>

\* sheet contents offered to the run
SheetRows ==
    {RowsTwoHeader, RowsOneHeader, RowsVertical, RowsNoHeader, RowsBadField, RowsBadCell}

\* --flag values, parseLangs results and --json values offered to the run
FlagValues == {"", "client"}

TargetValues ==
    {[Lang |-> {"go", "cs", "ts"}, JSON |-> TRUE], [Lang |-> {"go"}, JSON |-> FALSE],
     [Lang |-> {"cs", "ts"}, JSON |-> TRUE]}

\* sheetStages of every sheet the run can be offered, evaluated once
StagesTable ==
    {<<x, sheetStages(x[1], x[2], x[3])>> : x \in FlagValues \X SheetNames \X SheetRows}

StagesOf(exportFlag, sheetName, rows) ==
    (CHOOSE e \in StagesTable : e[1] = <<exportFlag, sheetName, rows>>)[2]

NoCall == [fn |-> "", arg |-> <<>>]

NoRet == [done |-> FALSE]

\* lines 175-213: the options are parsed, the aggregate is empty
Init ==
    /\ \E f \in FlagValues, t \in TargetValues :
          opts = [Flag |-> f, Lang |-> t.Lang, JSON |-> t.JSON, Pkg |-> "config"]
    /\ stage = "sheets"
    /\ fileNo = 1
    /\ seenKeys = EmptyMap
    /\ schemas = EmptyMap
    /\ jsonPayload = EmptyMap
    /\ orderedTypeNames = <<>>
    /\ err = NoErr
    /\ out = EmptyMap
    /\ fed = <<>>
    /\ call = NoCall
    /\ ret = NoRet

\* exitErr returning to its caller instead of ending the process
exitStageReturns == "sheets"

\* os.Exit(1) of exitErr: where main is after an error
exitStage == "aborted"

\* exitErr (lines 355-358)
exitErr(e) ==
    /\ err' = e
    /\ stage' = exitStage

\* the sheets of the current input path that addSheet has been given
FedOfFile == {i \in 1..Len(fed) : fed[i].origin[1] = fileNo}

\* lines 255-261 and 270-271: one sheet of the current input path is read and
\* handed to addSheet
AddSheet ==
    /\ stage = "sheets"
    /\ Len(fed) < MaxSheets
    /\ \E sheetName \in SheetNames, rows \in SheetRows :
          LET origin == <<fileNo, sheetName>>
              r      == addSheet(seenKeys, origin, StagesOf(opts.Flag, sheetName, rows))
          IN  /\ fed' = Append(fed, [origin |-> origin, sheetName |-> sheetName,
                                     rows |-> rows, calls |-> r.calls,
                                     accepted |-> ~IsErr(r.err)])
              /\ IF IsErr(r.err)
                 THEN /\ exitErr(r.err)
                      /\ UNCHANGED <<seenKeys, schemas, jsonPayload, orderedTypeNames>>
                 ELSE /\ seenKeys' = Put(seenKeys, r.jsonKey, origin)
                      /\ schemas' = Put(schemas, r.typeName, r.fields)
                      /\ jsonPayload' = Put(jsonPayload, r.jsonKey, r.items)
                      /\ orderedTypeNames' = appendTypeName(orderedTypeNames, r.typeName)
                      /\ UNCHANGED <<err, stage>>
    /\ UNCHANGED <<opts, fileNo, out, call, ret>>

\* lines 252-259 and 266-269: the input path cannot be read, or holds no sheet
ReadFails ==
    /\ stage = "sheets"
    /\ FedOfFile = {}
    /\ exitErr([Err("read", "", 0) EXCEPT !.origin = <<fileNo, "">>])
    /\ UNCHANGED <<opts, fileNo, seenKeys, schemas, jsonPayload, orderedTypeNames, out,
                   fed, call, ret>>

\* line 247: the loop moves to the next input path
NextFile ==
    /\ stage = "sheets"
    /\ FedOfFile # {}
    /\ fileNo < MaxFiles
    /\ fileNo' = fileNo + 1
    /\ UNCHANGED <<opts, stage, seenKeys, schemas, jsonPayload, orderedTypeNames, err,
                   out, fed, call, ret>>

\* line 272: the loop over the input paths ends
SheetsDone ==
    /\ stage = "sheets"
    /\ FedOfFile # {}
    /\ stage' = "go"
    /\ UNCHANGED <<opts, fileNo, seenKeys, schemas, jsonPayload, orderedTypeNames, err,
                   out, fed, call, ret>>

\* one of the blocks of lines 275-313: generate and write, or skip the language
EmitCode(lang, file, code, next) ==
    /\ stage = lang
    /\ IF lang \notin opts.Lang
       THEN /\ stage' = next
            /\ UNCHANGED <<err, out>>
       ELSE IF IsErr(code.err)
       THEN /\ exitErr(code.err)
            /\ UNCHANGED out
       ELSE /\ out' = Put(out, file, code)
            /\ stage' = next
            /\ UNCHANGED err
    /\ UNCHANGED <<opts, fileNo, seenKeys, schemas, jsonPayload, orderedTypeNames,
                   fed, call, ret>>

EmitGo ==
    EmitCode("go", "go.gen.go",
             generateGoBundle(opts.Pkg, rootName, orderedTypeNames, schemas), "cs")

EmitCS ==
    EmitCode("cs", "cs.gen.cs", generateCSBundle(rootName, orderedTypeNames, schemas), "ts")

EmitTS ==
    EmitCode("ts", "ts.gen.ts", generateTSBundle(rootName, orderedTypeNames, schemas), "json")

\* json.MarshalIndent of the payload (line 316): the members of the object
\* written, each found under the map key it is written for; key is the member's
\* key as the text holds it, value the records
jsonMarshalIndent(payload) ==
    [k \in DOMAIN payload |-> [key |-> ToValidUTF8(k), value |-> payload[k]]]

\* lines 315-327: all.json
EmitJSON ==
    /\ stage = "json"
    /\ out' = IF opts.JSON THEN Put(out, "all.json", jsonMarshalIndent(jsonPayload)) ELSE out
    /\ stage' = "done"
    /\ UNCHANGED <<opts, fileNo, seenKeys, schemas, jsonPayload, orderedTypeNames, err,
                   fed, call, ret>>

\* os.WriteFile fails (lines 281, 294, 307, 321)
WriteFails ==
    /\ \/ stage \in {"go", "cs", "ts"} /\ stage \in opts.Lang
       \/ stage = "json" /\ opts.JSON
    /\ exitErr(Err("write", stage, 0))
    /\ UNCHANGED <<opts, fileNo, seenKeys, schemas, jsonPayload, orderedTypeNames, out,
                   fed, call, ret>>

Next ==
    \/ AddSheet
    \/ ReadFails
    \/ NextFile
    \/ SheetsDone
    \/ EmitGo
    \/ EmitCS
    \/ EmitTS
    \/ EmitJSON
    \/ WriteFails

Spec == Init /\ [][Next]_vars

-----------------------------------------------------------------------------
(* The functions on their own: call is an input, ret what the function returns *)

SeqsUpTo(S, n) == UNION {[1..k -> S] : k \in 0..n}

PipeIdle ==
    /\ opts = [Flag |-> "", Lang |-> {"go", "cs", "ts"}, JSON |-> TRUE, Pkg |-> "config"]
    /\ stage = "sheets"
    /\ fileNo = 1
    /\ seenKeys = EmptyMap
    /\ schemas = EmptyMap
    /\ jsonPayload = EmptyMap
    /\ orderedTypeNames = <<>>
    /\ err = NoErr
    /\ out = EmptyMap
    /\ fed = <<>>

Return(v) ==
    /\ ~ret.done
    /\ ret' = [done |-> TRUE, val |-> v]
    /\ UNCHANGED <<pipeVars, call>>

(* detectHeaderSpec *)

MaxHeaderRows == 3

HeaderRowChoices ==
    {<<>>, <<"">>, <<"1">>, <<"2">>, <<" 2 ">>, <<"x">>, <<"2", "n#int">>, <<"x", "#">>}

InitHeader ==
    /\ PipeIdle
    /\ call \in {[fn |-> "detectHeaderSpec", arg |-> rows] :
                    rows \in SeqsUpTo(HeaderRowChoices, MaxHeaderRows)}
    /\ ret = NoRet

CallDetectHeaderSpec ==
    /\ call.fn = "detectHeaderSpec"
    /\ Return(detectHeaderSpec(call.arg))

SpecHeader == InitHeader /\ [][CallDetectHeaderSpec]_vars

(* parseFieldsFromDefineRow *)

MaxCells == 3

DefineCellChoices ==
    {" ", "a#int", "b#INT,s", "c#string,c", "n#Comment", "cid-int", "d#foo", "e#foo,s"}

ExportFlagChoices == {"", "server", "client", "both"}

InitFields ==
    /\ PipeIdle
    /\ call \in {[fn |-> "parseFieldsFromDefineRow", arg |-> <<row, flag>>] :
                    row \in SeqsUpTo(DefineCellChoices, MaxCells),
                    flag \in ExportFlagChoices}
    /\ ret = NoRet

\* the define row is the second row of a two-row header
CallParseFields ==
    /\ call.fn = "parseFieldsFromDefineRow"
    /\ Return(parseFieldsFromDefineRow(<<<<"comment">>, call.arg[1]>>, 2, call.arg[2]))

SpecFields == InitFields /\ [][CallParseFields]_vars

(* parseCellValue on brace literals *)

MaxLen == 2

IntChoices == {0, 7, -12}

InnerIntChoices == {0, -12}

RECURSIVE NatToStr(_)
NatToStr(n) ==
    IF n < 10 THEN At(Digits, n + 1) ELSE NatToStr(n \div 10) \o At(Digits, (n % 10) + 1)

\* strconv.Itoa
Itoa(n) == IF n < 0 THEN "-" \o NatToStr(0 - n) ELSE NatToStr(n)

RECURSIVE JoinComma(_)
JoinComma(parts) ==
    IF parts = <<>> THEN ""
    ELSE IF Len(parts) = 1 THEN parts[1]
    ELSE parts[1] \o "," \o JoinComma(Tail(parts))

\* the brace rendering of a sequence of integers: {1,2,3}
BraceOfInts(xs) == "{" \o JoinComma([i \in 1..Len(xs) |-> Itoa(xs[i])]) \o "}"

\* the brace rendering of a sequence of sequences of integers: {{1,2},{3,4}}
BraceOfRows(xss) == "{" \o JoinComma([i \in 1..Len(xss) |-> BraceOfInts(xss[i])]) \o "}"

CellCalls ==
    {[fn |-> "parseCellValue", arg |-> <<"int[]", BraceOfInts(xs)>>, dim |-> 1, src |-> xs] :
        xs \in SeqsUpTo(IntChoices, MaxLen)}
    \cup
    {[fn |-> "parseCellValue", arg |-> <<"int[][]", BraceOfRows(xss)>>, dim |-> 2, src |-> xss] :
        xss \in SeqsUpTo(SeqsUpTo(InnerIntChoices, MaxLen), MaxLen)}
    \cup
    {[fn |-> "parseCellValue", arg |-> <<t, c>>, dim |-> 0, src |-> <<>>] :
        t \in {"int[]", "int[][]", "INT[]"},
        c \in {"", "{}", "\"{}\"", "{ }", "{1,}", "{{1}}", "{1}", "1,2", "{01}", "null", "{1.5}",
               "{{1},2}", "{{1,2}", "\"{1,2}\"", "{x}"}}

InitCells ==
    /\ PipeIdle
    /\ call \in CellCalls
    /\ ret = NoRet

CallParseCellValue ==
    /\ call.fn = "parseCellValue"
    /\ Return(parseCellValue(call.arg[1], call.arg[2]))

SpecCells == InitCells /\ [][CallParseCellValue]_vars

(* the raw-type switches: mapGoType, mapCSType, mapTSType, parseCellValue *)

\* the case labels of the four switches
SupportedTypes ==
    {"int", "int32", "int64", "float", "float32", "float64", "bool", "string",
     "int[]", "int[][]"}

\* every spelling of s in upper- and lower-case letters
RECURSIVE CaseVariants(_)
CaseVariants(s) ==
    IF s = "" THEN {""}
    ELSE {c \o r : c \in {LowerCh(At(s, 1)), UpperCh(At(s, 1))},
                   r \in CaseVariants(SubSeq(s, 2, Len(s)))}

\* tokens that are no spelling of a case label
OtherTypes ==
    {"", "i", "in", "nt", "uint", "int8", "int16", "int3", "int6", "int644", "integer",
     "long", "double", "float16", "float6", "number", "boolean", "boo", "str", "text",
     "strings", "int[", "int[]]", "int[][", "int[][][]", "[]int", "[][]int", "float[]",
     "string[]", "bool[]", " int", "int ", "int []", "comment", "List<int>"}

\* raw type tokens offered, each with the case label it spells ("" when none)
TypeTokens ==
    UNION {{[token |-> v, canon |-> t] : v \in CaseVariants(t)} : t \in SupportedTypes}
    \cup {[token |-> o, canon |-> ""] : o \in OtherTypes}

\* cells offered to parseCellValue: the empty cell and cells some types reject
CellChoices == {"", "1", "x"}

TypeCalls ==
    {[fn |-> f, arg |-> <<k.token>>, canon |-> k.canon] :
        f \in {"mapGoType", "mapCSType", "mapTSType"}, k \in TypeTokens}
    \cup
    {[fn |-> "parseCellValue", arg |-> <<k.token, c>>, canon |-> k.canon] :
        k \in TypeTokens, c \in CellChoices}
    \cup
    {[fn |-> "parseFieldsFromDefineRow", arg |-> <<<<"f#" \o k.token>>, "">>,
      canon |-> k.canon] : k \in TypeTokens}

InitTypes ==
    /\ PipeIdle
    /\ call \in TypeCalls
    /\ ret = NoRet

CallMapGoType ==
    /\ call.fn = "mapGoType"
    /\ Return(mapGoType(call.arg[1]))

CallMapCSType ==
    /\ call.fn = "mapCSType"
    /\ Return(mapCSType(call.arg[1]))

CallMapTSType ==
    /\ call.fn = "mapTSType"
    /\ Return(mapTSType(call.arg[1]))

NextTypes ==
    \/ CallMapGoType
    \/ CallMapCSType
    \/ CallMapTSType
    \/ CallParseCellValue
    \/ CallParseFields

SpecTypes == InitTypes /\ [][NextTypes]_vars

(* one sheet: its fields, its records and the members emitted for it *)

MaxDataRows == 2

\* define-row cells offered: fields that share a raw name, with different types
\* and flags
RecordDefineCells == {"a#int", "a#string", "a#int[],c", "b#int", " "}

\* data rows offered: shorter than the define row, padded cells, a blank cell
RecordDataRows == {<<"1">>, <<"1", " 2 ", "{4}">>, <<"", "x">>}

SheetCalls ==
    {[fn |-> "sheetStages", arg |-> <<flag, <<define>> \o data>>] :
        flag \in {"", "server"},
        define \in UNION {[1..k -> RecordDefineCells] : k \in 1..MaxCells},
        data \in UNION {[1..k -> RecordDataRows] : k \in 0..MaxDataRows}}

InitSheet ==
    /\ PipeIdle
    /\ call \in SheetCalls
    /\ ret = NoRet

\* lines 216-237 for a sheet named T
CallSheetStages ==
    /\ call.fn = "sheetStages"
    /\ Return(sheetStages(call.arg[1], "T", call.arg[2]))

\* the three bundle generators on the schema of the one sheet
CallGenerateBundles ==
    /\ call.fn = "sheetStages"
    /\ ret.done
    /\ ~IsErr(ret.val.err)
    /\ "code" \notin DOMAIN ret
    /\ ret' = [done |-> TRUE, val |-> ret.val,
               code |-> [l \in {"go", "cs", "ts"} |->
                           Bundle(l, "config", rootName, <<ret.val.typeName>>,
                                  [n \in {ret.val.typeName} |-> ret.val.fields])]]
    /\ UNCHANGED <<pipeVars, call>>

NextSheet ==
    \/ CallSheetStages
    \/ CallGenerateBundles

SpecSheet == InitSheet /\ [][NextSheet]_vars

(* exportName *)

MaxNameLen == 4

\* what a name offered is made of: letters of both cases, a digit, the two
\* separators and the three-byte rune U+8868 (0xE8 0xA1 0xA8, written ^@$)
NameTokens == {"a", "B", "1", "_", "-", "^@$"}

RECURSIVE NamesOfLen(_)
NamesOfLen(n) ==
    IF n = 0 THEN {""} ELSE {t \o r : t \in NameTokens, r \in NamesOfLen(n - 1)}

NameCalls ==
    {[fn |-> "exportName", arg |-> <<n>>] : n \in UNION {NamesOfLen(k) : k \in 0..MaxNameLen}}

InitNames ==
    /\ PipeIdle
    /\ call \in NameCalls
    /\ ret = NoRet

CallExportName ==
    /\ call.fn = "exportName"
    /\ Return(exportName(call.arg[1]))

\* exportName applied to the name a first call returned
CallExportNameAgain ==
    /\ call.fn = "exportName"
    /\ ret.done
    /\ "again" \notin DOMAIN ret
    /\ ret' = [done |-> TRUE, val |-> ret.val, again |-> exportName(ret.val)]
    /\ UNCHANGED <<pipeVars, call>>

NextNames ==
    \/ CallExportName
    \/ CallExportNameAgain

SpecNames == InitNames /\ [][NextNames]_vars

-----------------------------------------------------------------------------
(* Properties of the run *)

Lookup(table, k) == (CHOOSE e \in table : e[1] = k)[2]

\* per sheet name offered: its type name and its jsonKey, evaluated once
TypeNameTable == {<<n, exportName(n)>> : n \in SheetNames}

KeyTable == {<<n, lowerFirst(pluralizeTypeName(exportName(n)))>> : n \in SheetNames}

TypeNameOfSheet(sheetName) == Lookup(TypeNameTable, sheetName)

KeyOfSheet(sheetName) == Lookup(KeyTable, sheetName)

LastFed == fed[Len(fed)]

AcceptedSheets == SelectSeq(fed, LAMBDA s : s.accepted)

\* the earlier accepted sheets that hold the jsonKey of the last sheet handed to
\* addSheet
EarlierHolders ==
    {i \in 1..(Len(fed) - 1) :
        fed[i].accepted /\ KeyOfSheet(fed[i].sheetName) = KeyOfSheet(LastFed.sheetName)}

DuplicateKeyError(s, earlier) ==
    [Err("duplicate sheet key", KeyOfSheet(s.sheetName), 0)
        EXCEPT !.origin = s.origin, !.prev = earlier.origin]

\* what the last sheet's own content fails with, if anything
OwnError == StagesOf(opts.Flag, LastFed.sheetName, LastFed.rows).err

\* C1 as stated: a sheet whose jsonKey an accepted sheet already holds always
\* aborts the run with the duplicate-key error naming its origin and the earlier
\* sheet's origin.
C1_DuplicateAlwaysReported ==
    EarlierHolders # {} =>
        /\ stage = "aborted"
        /\ \E i \in EarlierHolders : err = DuplicateKeyError(LastFed, fed[i])

\* C1: a sheet whose jsonKey an accepted sheet already holds is never
\* accepted and aborts the run, whichever of the two came first; the error is the
\* duplicate-key error naming the sheet's origin and the earlier sheet's origin
\* when the sheet itself passes header detection, the orientation check, field
\* parsing and cell decoding, and is the error of the first of those to fail
\* otherwise.  So the accepted sheets have pairwise distinct jsonKeys, and
\* seenKeys and jsonPayload hold each of them under its own sheet's origin.
C1_DuplicateKeyDetected ==
    /\ \A i, j \in 1..Len(AcceptedSheets) :
          i # j => KeyOfSheet(AcceptedSheets[i].sheetName)
                     # KeyOfSheet(AcceptedSheets[j].sheetName)
    /\ \A i \in 1..Len(AcceptedSheets) :
          /\ KeyOfSheet(AcceptedSheets[i].sheetName) \in DOMAIN seenKeys \cap DOMAIN jsonPayload
          /\ seenKeys[KeyOfSheet(AcceptedSheets[i].sheetName)] = AcceptedSheets[i].origin
    /\ EarlierHolders # {} =>
          /\ ~LastFed.accepted
          /\ stage = "aborted"
          /\ IF IsErr(OwnError)
             THEN err = [OwnError EXCEPT !.origin = LastFed.origin]
             ELSE \E i \in EarlierHolders : err = DuplicateKeyError(LastFed, fed[i])

\* a well-formed sheet collides with an earlier sheet of another name and another
\* origin, and the duplicate-key error names both
C1_Witness ==
    /\ EarlierHolders # {}
    /\ \E i \in EarlierHolders :
          /\ err = DuplicateKeyError(LastFed, fed[i])
          /\ fed[i].origin[1] # LastFed.origin[1]
          /\ fed[i].sheetName # LastFed.sheetName

Aggregate == <<seenKeys, schemas, jsonPayload, orderedTypeNames>>

SheetErrorKinds ==
    {"cannot detect header", "vertical orientation (A1=2) is not supported yet",
     "invalid field def", "invalid --flag", "unsupported type", "no exported fields found",
     "define row out of range", "strconv.Atoi", "strconv.ParseFloat", "strconv.ParseBool",
     "json", "empty sheet name", "duplicate sheet key"}

\* C2: when addSheet fails on a sheet the run stops there: the step that hands the
\* sheet over leaves schemas, jsonPayload, seenKeys and orderedTypeNames as they
\* were and ends the run with that sheet's error, no artifact has been or is
\* written, and nothing happens afterwards (no later sheet, no later input file,
\* no emission).
C2_FailFast ==
    [][ /\ (Len(fed') = Len(fed) + 1 /\ ~fed'[Len(fed')].accepted) =>
              /\ stage' = "aborted"
              /\ err'.kind \in SheetErrorKinds
              /\ err'.origin = fed'[Len(fed')].origin
              /\ Aggregate' = Aggregate
              /\ out = EmptyMap
              /\ out' = EmptyMap
        /\ stage = "aborted" => vars' = vars
        /\ (Len(fed') = Len(fed) + 1 /\ fed'[Len(fed')].accepted) => ~IsErr(err')
      ]_vars

\* a sheet fails after two sheets were accepted: the run is over, nothing written
C2_Witness ==
    /\ stage = "aborted"
    /\ Len(fed) = 3
    /\ ~LastFed.accepted
    /\ err.kind = "invalid field def"
    /\ Len(orderedTypeNames) = 2
    /\ out = EmptyMap

CodeFiles == {"go.gen.go", "cs.gen.cs", "ts.gen.ts"}

\* per sheet content offered: the field name each define-row cell declares ("" for
\* a cell that declares none), evaluated once
DefineNamesTable ==
    {<<rows, IF IsErr(detectHeaderSpec(rows).err) THEN <<>>
             ELSE [c \in 1..Len(rows[detectHeaderSpec(rows).DefineRow]) |->
                     fieldRe(TrimSpace(rows[detectHeaderSpec(rows).DefineRow][c])).name]>> :
        rows \in SheetRows}

DefineNamesOf(rows) == Lookup(DefineNamesTable, rows)

\* C3: orderedTypeNames is the accepted sheets' type names in the order the
\* sheets were processed; every code artifact written lists the root-container
\* members and the type declarations in that order, and the members of every type
\* are the define-row fields in strictly ascending column order.
C3_EmissionOrder ==
    /\ orderedTypeNames =
          [i \in 1..Len(AcceptedSheets) |-> TypeNameOfSheet(AcceptedSheets[i].sheetName)]
    /\ \A i \in 1..Len(AcceptedSheets) :
          LET fields == schemas[TypeNameOfSheet(AcceptedSheets[i].sheetName)]
          IN  /\ \A j, k \in 1..Len(fields) : j < k => fields[j].Col < fields[k].Col
              /\ \A j \in 1..Len(fields) :
                    DefineNamesOf(AcceptedSheets[i].rows)[fields[j].Col + 1]
                        = fields[j].RawName
    /\ \A f \in CodeFiles \cap DOMAIN out :
          /\ [i \in 1..Len(out[f].root) |-> out[f].root[i].typeName] = orderedTypeNames
          /\ [i \in 1..Len(out[f].types) |-> out[f].types[i].name] = orderedTypeNames
          /\ \A i \in 1..Len(out[f].types) :
                [j \in 1..Len(out[f].types[i].fields) |-> out[f].types[i].fields[j].json]
                    = [j \in 1..Len(schemas[orderedTypeNames[i]]) |->
                          schemas[orderedTypeNames[i]][j].RawName]

\* three sheets of different names were accepted and all three code artifacts
\* written
C3_Witness ==
    /\ stage = "done"
    /\ Len(orderedTypeNames) = 3
    /\ orderedTypeNames[1] # "Box"
    /\ CodeFiles \subseteq DOMAIN out
    /\ \E i \in 1..3 : Len(schemas[orderedTypeNames[i]]) >= 2

\* the sheet contents offered that select vertical orientation: three header rows
\* (the third has a cell with "#") and A1 is "2" once trimmed
VerticalRows ==
    {rows \in SheetRows :
        /\ Len(rows) >= 3
        /\ \E i \in 1..Len(rows[3]) : Contains(rows[3][i], "#")
        /\ Len(rows[1]) > 0
        /\ TrimSpace(rows[1][1]) = "2"}

SelectsVertical(rows) == rows \in VerticalRows

\* C5: a sheet that selects vertical orientation (three header rows, A1 "2")
\* aborts the run with the unsupported-orientation error of its origin; for it
\* only detectHeaderSpec is called, never parseFieldsFromDefineRow or
\* readHorizontalItems, and it adds nothing to the aggregate.
C5_VerticalRefusedFirst ==
    \A i \in 1..Len(fed) :
        SelectsVertical(fed[i].rows) =>
            /\ i = Len(fed)
            /\ ~fed[i].accepted
            /\ stage = "aborted"
            /\ err = [Err("vertical orientation (A1=2) is not supported yet", "", 0)
                         EXCEPT !.origin = fed[i].origin]
            /\ fed[i].calls = <<"detectHeaderSpec">>
            /\ Len(orderedTypeNames) = Len(AcceptedSheets)
            /\ Cardinality(DOMAIN seenKeys) = Len(AcceptedSheets)
            /\ Cardinality(DOMAIN schemas) = Len(AcceptedSheets)
            /\ Cardinality(DOMAIN jsonPayload) = Len(AcceptedSheets)
            /\ out = EmptyMap

\* a vertical sheet whose define row is malformed is refused for its orientation
\* after another sheet was accepted
C5_Witness ==
    /\ Len(fed) = 2
    /\ SelectsVertical(LastFed.rows)
    /\ ~fieldRe(TrimSpace(LastFed.rows[3][1])).ok
    /\ err.kind = "vertical orientation (A1=2) is not supported yet"
    /\ Len(orderedTypeNames) = 1

NonEmptyDataRows(rows) ==
    SelectSeq([r \in 1..(Len(rows) - detectHeaderSpec(rows).DefineRow) |->
                  rows[detectHeaderSpec(rows).DefineRow + r]],
              LAMBDA row : \E c \in 1..Len(row) : TrimSpace(row[c]) # "")

\* the records a sheet should yield under an export flag: one per non-empty data
\* row, holding for every field of the define row the decoded cell of its column
ExpectedRecords(exportFlag, rows) ==
    LET fields == parseFieldsFromDefineRow(rows, detectHeaderSpec(rows).DefineRow,
                                           exportFlag).fields
        data   == NonEmptyDataRows(rows)
        names  == {fields[j].RawName : j \in 1..Len(fields)}
        col(n) == (CHOOSE j \in 1..Len(fields) : fields[j].RawName = n)
    IN  [k \in 1..Len(data) |->
            [n \in names |->
                parseCellValue(fields[col(n)].RawType,
                               IF fields[col(n)].Col < Len(data[k])
                               THEN TrimSpace(data[k][fields[col(n)].Col + 1])
                               ELSE "").val]]

\* ExpectedRecords of every sheet content the run can accept, evaluated once
ExpectedTable ==
    {<<x, ExpectedRecords(x[1], x[2])>> :
        x \in {y \in FlagValues \X SheetRows :
                 \E n \in SheetNames : ~IsErr(StagesOf(y[1], n, y[2]).err)}}

\* C9: for every accepted sheet the records stored under its jsonKey (and written
\* to all.json) are one per data row after the define row that has a cell which
\* is not blank after trimming, in row order: record k holds, for every field, the
\* decoded cell of the k-th such row; header rows and the define row yield none.
C9_OneRecordPerDataRow ==
    \A i \in 1..Len(AcceptedSheets) :
        LET sheet == AcceptedSheets[i]
            items == jsonPayload[KeyOfSheet(sheet.sheetName)]
        IN  /\ items = Lookup(ExpectedTable, <<opts.Flag, sheet.rows>>)
            /\ "all.json" \in DOMAIN out =>
                  out["all.json"][KeyOfSheet(sheet.sheetName)].value = items

\* an accepted sheet with a blank data row between two records, the second from
\* a row shorter than the define row, written to all.json
C9_Witness ==
    /\ "all.json" \in DOMAIN out
    /\ \E i \in 1..Len(AcceptedSheets) :
          /\ AcceptedSheets[i].rows = RowsTwoHeader
          /\ Len(jsonPayload[KeyOfSheet(AcceptedSheets[i].sheetName)]) = 2
          /\ Len(AcceptedSheets[i].rows) = 5

-----------------------------------------------------------------------------
(* Header detection *)

\* a row has a cell with the character '#'
HasHash(row) ==
    \E i \in 1..Len(row) : \E k \in 1..Len(row[i]) : SubSeq(row[i], k, k) = "#"

\* the number of header rows the precedence 3, 2, 1 selects; 0 when none applies
HeaderRowsOf(rows) ==
    IF Len(rows) >= 3 /\ HasHash(rows[3]) THEN 3
    ELSE IF Len(rows) >= 2 /\ HasHash(rows[2]) THEN 2
    ELSE IF Len(rows) >= 1 /\ HasHash(rows[1]) THEN 1
    ELSE 0

\* cell (0,0) as stored, "" when the first row has no cell
RawA1(rows) == IF Len(rows[1]) > 0 THEN rows[1][1] ELSE ""

\* what detectHeaderSpec must return for rows when marker is the orientation cell
HeaderResultIs(res, rows, marker) ==
    IF HeaderRowsOf(rows) = 0
    THEN res.err.kind = "cannot detect header"
    ELSE /\ ~IsErr(res.err)
         /\ res.HeaderRows = HeaderRowsOf(rows)
         /\ res.DefineRow = res.HeaderRows
         /\ dataStartRow(res) = res.DefineRow + 1
         /\ res.Orientation =
              IF HeaderRowsOf(rows) = 3 /\ marker = "2"
              THEN OrientationVertical ELSE OrientationHorizontal

\* C4 as stated: precedence 3 rows, 2 rows, 1 row, else failure; DefineRow equals
\* HeaderRows and data starts on the next row; with 3 header rows the orientation
\* is Vertical iff cell (0,0) is exactly "2".
C4_VerticalIffLiteralTwo ==
    ret.done => HeaderResultIs(ret.val, call.arg,
                               IF Len(call.arg) > 0 THEN RawA1(call.arg) ELSE "")

\* C4: detectHeaderSpec picks, first match wins, 3 header rows when row 3 has a
\* '#' cell, else 2 when row 2 has one, else 1 when row 1 has one, else fails;
\* on success DefineRow = HeaderRows and the first data row is DefineRow + 1;
\* with 3 header rows the orientation is Vertical iff cell (0,0) is "2" after
\* surrounding whitespace is trimmed, and Horizontal in every other case.
C4_HeaderPrecedence ==
    ret.done => HeaderResultIs(ret.val, call.arg,
                               IF Len(call.arg) > 0 THEN TrimSpace(RawA1(call.arg)) ELSE "")

\* a 3-row header whose row 2 also has a cell with the character and whose
\* orientation cell is "2" padded with blanks has been detected as Vertical
C4_Witness ==
    /\ ret.done
    /\ Len(call.arg) = 3
    /\ call.arg[1] = <<" 2 ">>
    /\ HasHash(call.arg[2])
    /\ ret.val.Orientation = OrientationVertical
    /\ ret.val.DefineRow = 3

-----------------------------------------------------------------------------
(* Field-definition parsing *)

\* how a define-row cell reads: "blank", "comment" (a comment/common column),
\* "malformed" (not name#type[,flag]) or "field", with the name, flag letter and
\* type of a field and whether the type is in the Go mapping table
CellInfo(rawCell) ==
    LET cell == TrimSpace(rawCell)
        m    == fieldRe(cell)
        class ==
            IF cell = "" THEN "blank"
            ELSE IF Contains(ToLower(cell), "#comment") \/ Contains(ToLower(cell), "#common")
                 THEN "comment"
            ELSE IF ~m.ok THEN "malformed"
            ELSE IF ToLower(m.type) \in {"comment", "common"} THEN "comment"
            ELSE "field"
    IN  [class |-> class, text |-> cell,
         name  |-> IF class = "field" THEN m.name ELSE "",
         flag  |-> IF class = "field" THEN m.flag ELSE "",
         known |-> class = "field" /\ mapGoType(m.type).ok]

\* CellInfo of every define-row cell offered, evaluated once
CellInfoTable == {<<c, CellInfo(c)>> : c \in DefineCellChoices}

InfoOf(rawCell) == Lookup(CellInfoTable, rawCell)

ValidFilters == {"", "server", "client"}

\* the filter keeps a field with this flag letter
Kept(flagCh, exportFlag) ==
    \/ exportFlag = ""
    \/ flagCh = ""
    \/ flagCh = "s" /\ exportFlag = "server"
    \/ flagCh = "c" /\ exportFlag = "client"

\* the 1-based positions of the cells of a class
CellsOf(row, classes) == {i \in 1..Len(row) : InfoOf(row[i]).class \in classes}

\* C6 as stated: a malformed cell makes the parse fail with the
\* invalid-field-definition error naming that cell's text and the row.
C6_MalformedAlwaysReported ==
    (ret.done /\ CellsOf(call.arg[1], {"malformed"}) # {}) =>
        /\ ret.val.err.kind = "invalid field def"
        /\ ret.val.err.row = 2
        /\ \E i \in CellsOf(call.arg[1], {"malformed"}) :
              ret.val.err.text = InfoOf(call.arg[1][i]).text

\* C6: for every define row and filter value, a malformed cell makes
\* parseFieldsFromDefineRow fail, so no field list omitting it is ever returned;
\* the error is the invalid-field-definition error naming the leftmost malformed
\* cell (trimmed) and the row, unless a field cell to its left fails first: with
\* the invalid-flag error when the filter is not none/server/client, else with
\* the unsupported-type error when a field the filter keeps has an unmapped type.
C6_MalformedNeverOmitted ==
    (ret.done /\ CellsOf(call.arg[1], {"malformed"}) # {}) =>
        LET row    == call.arg[1]
            flag   == call.arg[2]
            bad    == SetMin(CellsOf(row, {"malformed"}))
            before == {j \in CellsOf(row, {"field"}) : j < bad}
        IN  /\ IsErr(ret.val.err)
            /\ ret.val.fields = <<>>
            /\ IF flag \notin ValidFilters /\ before # {}
               THEN ret.val.err.kind = "invalid --flag"
               ELSE IF \E j \in before : /\ Kept(InfoOf(row[j]).flag, flag)
                                         /\ ~InfoOf(row[j]).known
               THEN ret.val.err.kind = "unsupported type"
               ELSE /\ ret.val.err.kind = "invalid field def"
                    /\ ret.val.err.text = InfoOf(row[bad]).text
                    /\ ret.val.err.row = 2

\* a row whose malformed cell follows a supported field and a comment column was
\* refused with the invalid-field-definition error under the client filter
C6_Witness ==
    /\ ret.done
    /\ call.arg = << <<"a#int", "n#Comment", "cid-int">>, "client" >>
    /\ ret.val.err.kind = "invalid field def"
    /\ ret.val.err.text = "cid-int"

C8_InvalidFilterAlwaysReported ==
    (ret.done /\ call.arg[2] \notin ValidFilters) => ret.val.err.kind = "invalid --flag"

\* C8: a filter value other than none, server or client makes
\* parseFieldsFromDefineRow fail for every define row; the error is the
\* invalid-flag error (naming the filter value) exactly when the leftmost cell
\* that is neither blank nor a comment/common cell is a well-formed field
\* definition; it is the invalid-field-definition error when that cell is
\* malformed and the no-exported-fields error when the row has no such cell.
C8_InvalidFilterRefused ==
    (ret.done /\ call.arg[2] \notin ValidFilters) =>
        LET row  == call.arg[1]
            live == CellsOf(row, {"field", "malformed"})
        IN  /\ IsErr(ret.val.err)
            /\ ret.val.fields = <<>>
            /\ IF live = {} THEN ret.val.err.kind = "no exported fields found"
               ELSE IF InfoOf(row[SetMin(live)]).class = "field"
               THEN /\ ret.val.err.kind = "invalid --flag"
                    /\ ret.val.err.text = call.arg[2]
               ELSE ret.val.err.kind = "invalid field def"

\* with the filter value "both", a row whose first live cell is a field of an
\* unmapped type, followed by a malformed cell, was refused for the filter
C8_Witness ==
    /\ ret.done
    /\ call.arg = << <<" ", "d#foo", "cid-int">>, "both" >>
    /\ ret.val.err.kind = "invalid --flag"
    /\ ret.val.err.text = "both"

-----------------------------------------------------------------------------
(* Brace literals *)

EmptyLiterals == {"", "{}", "\"{}\""}

\* C10: decoding the brace rendering of a sequence of integers as int[] returns
\* that sequence in order, decoding the nested brace rendering of a sequence of
\* sequences of integers as int[][] returns it, and "{}", the quoted "{}" and the
\* empty cell decode to an empty sequence that is not null for both array types.
C10_BraceRoundTrip ==
    ret.done =>
        /\ call.dim = 1 => ret.val = Decoded(Val("[]int", call.src))
        /\ call.dim = 2 => ret.val = Decoded(Val("[][]int", call.src))
        /\ (call.dim = 0 /\ call.arg[2] \in EmptyLiterals) =>
              /\ ~IsErr(ret.val.err)
              /\ ret.val.val.v = <<>>
              /\ ~ret.val.val.nil
              /\ ret.val.val.t = IF ToLower(call.arg[1]) = "int[]" THEN "[]int" ELSE "[][]int"

\* a two-row literal with a negative number and an empty inner row was decoded
C10_Witness ==
    /\ ret.done
    /\ call.dim = 2
    /\ call.arg[2] = "{{0,-12},{}}"
    /\ ret.val.val.v = << <<0, -12>>, <<>> >>

-----------------------------------------------------------------------------
(* Raw types *)

\* the value an empty cell of a case label must decode to
ZeroOf(canon) ==
    IF canon \in {"int", "int32", "int64"} THEN Val("int", 0)
    ELSE IF canon \in {"float", "float32", "float64"} THEN Val("float64", <<0, 0>>)
    ELSE IF canon = "bool" THEN Val("bool", FALSE)
    ELSE IF canon = "string" THEN Val("string", "")
    ELSE IF canon = "int[]" THEN Val("[]int", <<>>)
    ELSE Val("[][]int", <<>>)

\* the value category of a case label
CategoryOf(canon) ==
    IF canon \in {"int", "int32", "int64"} THEN "integer"
    ELSE IF canon \in {"float", "float32", "float64"} THEN "float"
    ELSE IF canon = "int[]" THEN "integers"
    ELSE IF canon = "int[][]" THEN "integer rows"
    ELSE canon

\* the value categories a type name of a target language stands for
CategoriesOfType(t) ==
    IF t = "int" THEN {"integer"}
    ELSE IF t \in {"float64", "double"} THEN {"float"}
    ELSE IF t = "number" THEN {"integer", "float"}
    ELSE IF t \in {"bool", "boolean"} THEN {"bool"}
    ELSE IF t = "string" THEN {"string"}
    ELSE IF t \in {"[]int", "List<int>", "number[]"} THEN {"integers"}
    ELSE IF t \in {"[][]int", "List<List<int>>", "number[][]"} THEN {"integer rows"}
    ELSE {}

\* the value category of a decoded value; a nil slice has none
CategoryOfValue(v) ==
    IF v.nil THEN "null"
    ELSE IF v.t = "int" THEN "integer"
    ELSE IF v.t = "float64" THEN "float"
    ELSE IF v.t = "[]int" THEN "integers"
    ELSE IF v.t = "[][]int" THEN "integer rows"
    ELSE v.t

\* the tokens offered that spell a case label
SupportedTokens == {k.token : k \in {x \in TypeTokens : x.canon # ""}}

Unsupported(e, token) == e.kind = "unsupported type" /\ e.text = token

\* a schema of one type holding the fields
OneTypeSchema(fields) == [n \in {"T"} |-> fields]

\* C11: mapGoType, mapCSType, mapTSType and parseCellValue (for an empty and for
\* a non-empty cell) accept a raw type token exactly when it spells, in any mix
\* of upper and lower case, one of int, int32, int64, float, float32, float64,
\* bool, string, int[], int[][], and reject every other token as unsupported; the
\* value of an empty cell of an accepted type is 0, 0.0, false, "" or an empty
\* sequence that is not null, of the value category of the type each mapper
\* gives; and a field parseFieldsFromDefineRow accepts is rejected as unsupported
\* by no mapper, no decoder and no emitter.
C11_TypeDomain ==
    ret.done =>
        /\ call.fn \in {"mapGoType", "mapCSType", "mapTSType"} =>
              /\ ret.val.ok <=> call.canon # ""
              /\ ret.val.ok => CategoryOf(call.canon) \in CategoriesOfType(ret.val.t)
              /\ ~ret.val.ok => ret.val.t = ""
        /\ call.fn = "parseCellValue" =>
              /\ call.canon = "" => Unsupported(ret.val.err, call.arg[1])
              /\ call.canon # "" => ret.val.err.kind # "unsupported type"
              /\ (call.canon # "" /\ call.arg[2] = "") =>
                    /\ ret.val = Decoded(ZeroOf(call.canon))
                    /\ CategoryOfValue(ret.val.val) = CategoryOf(call.canon)
                    /\ \A m \in {mapGoType(call.arg[1]), mapCSType(call.arg[1]),
                                  mapTSType(call.arg[1])} :
                          m.ok /\ CategoryOfValue(ret.val.val) \in CategoriesOfType(m.t)
        /\ call.fn = "parseFieldsFromDefineRow" =>
              /\ call.canon # "" => ~IsErr(ret.val.err) /\ Len(ret.val.fields) = 1
              /\ ret.val.err.kind = "unsupported type" => call.canon = ""
              /\ \A j \in 1..Len(ret.val.fields) :
                    /\ ret.val.fields[j].RawType \in SupportedTokens
                    /\ ret.val.fields[j].GoType = mapGoType(ret.val.fields[j].RawType).t
                    /\ mapGoType(ret.val.fields[j].RawType).ok
                    /\ mapCSType(ret.val.fields[j].RawType).ok
                    /\ mapTSType(ret.val.fields[j].RawType).ok
                    /\ \A c \in CellChoices :
                          parseCellValue(ret.val.fields[j].RawType, c).err.kind
                              # "unsupported type"
              /\ ~IsErr(ret.val.err) =>
                    /\ ~IsErr(generateGoBundle("config", rootName, <<"T">>,
                                               OneTypeSchema(ret.val.fields)).err)
                    /\ ~IsErr(generateCSBundle(rootName, <<"T">>,
                                               OneTypeSchema(ret.val.fields)).err)
                    /\ ~IsErr(generateTSBundle(rootName, <<"T">>,
                                               OneTypeSchema(ret.val.fields)).err)

\* the empty cell of a type spelled in mixed case was decoded to an empty
\* sequence that is not null
C11_Witness ==
    /\ ret.done
    /\ call.fn = "parseCellValue"
    /\ call.arg = <<"Int[][]", "">>
    /\ ret.val.val = Val("[][]int", <<>>)
    /\ mapCSType(call.arg[1]).t = "List<List<int>>"

-----------------------------------------------------------------------------
(* Exported names *)

\* C12: for every name, exportName applied to its own result returns that
\* result unchanged: exportName(exportName(n)) = exportName(n).
C12_ExportNameIdempotent ==
    "again" \in DOMAIN ret => ret.again = ret.val

-----------------------------------------------------------------------------
(* The aggregate *)

TypeNameSet == {orderedTypeNames[i] : i \in 1..Len(orderedTypeNames)}

\* per type name a sheet offered can get: lowerFirst(pluralizeTypeName(t)),
\* evaluated once
KeyOfTypeTable ==
    {<<t, lowerFirst(pluralizeTypeName(t))>> : t \in {exportName(n) : n \in SheetNames}}

KeysOfTypeNames == {Lookup(KeyOfTypeTable, t) : t \in TypeNameSet}

\* the keys of the members of the root container a code artifact declares
RootKeys(code) == {code.root[i].jsonKey : i \in 1..Len(code.root)}

\* the keys of the members of the object all.json holds
DataKeys(data) == {data[k].key : k \in DOMAIN data}

\* orderedTypeNames has no duplicate, schemas is keyed by its names, jsonPayload
\* and seenKeys by their jsonKeys, all four as large as the number of accepted
\* sheets, and every accepted sheet's fields and records are still stored
AggregateConsistent ==
    /\ \A i, j \in 1..Len(orderedTypeNames) :
          i # j => orderedTypeNames[i] # orderedTypeNames[j]
    /\ DOMAIN schemas = TypeNameSet
    /\ DOMAIN jsonPayload = KeysOfTypeNames
    /\ DOMAIN seenKeys = KeysOfTypeNames
    /\ Len(orderedTypeNames) = Len(AcceptedSheets)
    /\ Cardinality(DOMAIN schemas) = Len(AcceptedSheets)
    /\ Cardinality(DOMAIN jsonPayload) = Len(AcceptedSheets)
    /\ Cardinality(DOMAIN seenKeys) = Len(AcceptedSheets)
    /\ \A i \in 1..Len(AcceptedSheets) :
          /\ schemas[TypeNameOfSheet(AcceptedSheets[i].sheetName)]
                = StagesOf(opts.Flag, AcceptedSheets[i].sheetName, AcceptedSheets[i].rows).fields
          /\ jsonPayload[KeyOfSheet(AcceptedSheets[i].sheetName)]
                = StagesOf(opts.Flag, AcceptedSheets[i].sheetName, AcceptedSheets[i].rows).items

\* the root-container members of every code artifact written and the members
\* of all.json, when written, have the same keys
ArtifactKeysMatch ==
    \A f \in CodeFiles \cap DOMAIN out :
        "all.json" \in DOMAIN out => RootKeys(out[f]) = DataKeys(out["all.json"])

\* C13: after any sequence of accepted sheets, orderedTypeNames has no
\* duplicate, the keys of schemas are its names, the keys of jsonPayload and of
\* seenKeys are lowerFirst(pluralizeTypeName(t)) of its names t, all four have
\* the size of the number of accepted sheets, so that no accepted sheet's schema
\* or records are overwritten; and every root-container member a code emitter
\* writes has a matching key in all.json and every key of all.json a member.
C13_AggregateConsistency ==
    /\ AggregateConsistent
    /\ ArtifactKeysMatch

-----------------------------------------------------------------------------
(* Schema and records of one sheet *)

\* the field a record's entry for the raw name n is decoded for: the rightmost
LastFieldOf(fields, n) ==
    fields[SetMax({j \in 1..Len(fields) : fields[j].RawName = n})]

\* the rows after a one-row header that have a cell which is not blank
DataRowsOf(rows) ==
    SelectSeq(Tail(rows), LAMBDA row : \E c \in 1..Len(row) : TrimSpace(row[c]) # "")

\* the 0-based columns of the define-row cells that are fields the filter keeps
KeptColumns(define, exportFlag) ==
    {c - 1 : c \in {i \in 1..Len(define) :
                      /\ CellInfo(define[i]).class = "field"
                      /\ Kept(CellInfo(define[i]).flag, exportFlag)}}

\* C14: the keys of every decoded record are the distinct raw names of the
\* sheet's fields; the value under a name is the decode of the trimmed cell at
\* the column of the rightmost field of that name, with that field's type, and
\* the type's zero value when the data row is shorter than that column.  A
\* repeated raw name is not rejected: the schema keeps one field per define-row
\* cell, all of them emitted as members, while a record holds one entry per name.
C14_RecordKeys ==
    (ret.done /\ call.fn = "sheetStages" /\ ~IsErr(ret.val.err)) =>
        LET fields == ret.val.fields
            items  == ret.val.items
            names  == {fields[j].RawName : j \in 1..Len(fields)}
            data   == DataRowsOf(call.arg[2])
        IN  /\ {fields[j].Col : j \in 1..Len(fields)}
                  = KeptColumns(call.arg[2][1], call.arg[1])
            /\ Len(fields) = Cardinality(KeptColumns(call.arg[2][1], call.arg[1]))
            /\ \A j \in 1..Len(fields) :
                  fields[j].RawName = CellInfo(call.arg[2][1][fields[j].Col + 1]).name
            /\ Len(items) = Len(data)
            /\ \A k \in 1..Len(items) :
                  /\ DOMAIN items[k] = names
                  /\ \A n \in names :
                        items[k][n] =
                            IF LastFieldOf(fields, n).Col >= Len(data[k])
                            THEN ZeroOf(ToLower(LastFieldOf(fields, n).RawType))
                            ELSE parseCellValue(
                                     LastFieldOf(fields, n).RawType,
                                     TrimSpace(data[k][LastFieldOf(fields, n).Col + 1])).val
            /\ "code" \in DOMAIN ret =>
                  \A l \in {"go", "cs", "ts"} :
                      /\ ~IsErr(ret.code[l].err)
                      /\ [j \in 1..Len(ret.code[l].types[1].fields) |->
                              ret.code[l].types[1].fields[j].json]
                            = [j \in 1..Len(fields) |-> fields[j].RawName]

\* a define row with the raw name a in two columns, as int and as string: both
\* fields are in the schema and emitted, and the one record holds the string of
\* the second column under a
C14_Witness ==
    /\ "code" \in DOMAIN ret
    /\ call.arg = <<"", << <<"a#int", "a#string">>, <<"1", " 2 ", "{4}">> >> >>
    /\ Len(ret.val.fields) = 2
    /\ Len(ret.code["ts"].types[1].fields) = 2
    /\ ret.val.items = << [n \in {"a"} |-> Val("string", "2")] >>

====
